---- MODULE Spec2Model ----
(***************************************************************************)
(* The allocation-commitment core of the "large" airdrop tool:             *)
(*   src/src/merkle.rs   MerkleTree::new, get_proof, get_leaf_index,       *)
(*                       MerkleTree::verify_proof, verify_proof, hash_pair *)
(*   src/src/wallets.rs  clean_addresses, hash_allo, parse_csv,            *)
(*                       write_wallets_to_bytes                            *)
(*   src/src/lib.rs      AllocationExt, fetch_merkle_tree_blob             *)
(*   src/src/main.rs     the CreateDrop and Claim commands                 *)
(*   src/src/ffi.rs      write_blobs, write_files, reorder_results         *)
(*                                                                         *)
(* Hashes.  A Hash ([u8; 32]) is modelled as a term: a value that is not   *)
(* the output of hash_pair is Atom(v) = <<v>>, and hash_pair(l, r) is the  *)
(* pair <<l, r>>.  Two terms are equal exactly when they were built the    *)
(* same way, which is the collision-free hash the claims assume; a 32-byte *)
(* value that happens to be the output of hash_pair (an inner node of a    *)
(* tree, its root) is an ordinary Hash and may be passed wherever a Hash   *)
(* is expected.                                                            *)
(*                                                                         *)
(* Indices are 0-based as in the source; TLA+ sequences are 1-based, so    *)
(* the element at source index i of a sequence s is s[i + 1].              *)
(***************************************************************************)
EXTENDS Integers, Sequences, FiniteSets, TLC

VARIABLES
    leaves,          \* the argument of the last MerkleTree::new
    tree,            \* what the last MerkleTree::new returned
    proofRes,        \* the last get_proof call: its argument and outcome
    verifyRes,       \* the last verify_proof call: its arguments and outcome
    overflow_checks, \* build profile: are integer overflow checks compiled in
    addresses,       \* the argument of the last clean_addresses
    cleanRes,        \* what the last clean_addresses returned
    blob,            \* the bytes bcs::to_bytes made of the tree
    loaded,          \* the tree bcs::from_bytes made of a blob
    allocations,     \* the allocation table fetched by the Claim command
    lookupRes,       \* the last get_allocation / get_leaf call
    second,          \* a second MerkleTree::new call: its argument and result
    pc,              \* where the running command of main stands
    wallet,          \* the active wallet address
    stored,          \* the blobs written to Walrus, in the order returned
    tx,              \* the transaction created, signed, submitted
    reported,        \* what the walrus tool printed, in the tool's order
    storeRes         \* the last write_blobs call and what it returned

\* the variables the core operations never touch
ext == <<blob, loaded, allocations, lookupRes, second, pc, wallet, stored, tx, reported, storeRes>>

vars == <<leaves, tree, proofRes, verifyRes, overflow_checks, addresses, cleanRes, ext>>

(***************************************************************************)
(* Bounds of the model.                                                    *)
(***************************************************************************)
\* longest leaf sequence handed to MerkleTree::new under Spec
MaxLeaves == 5
\* longest leaf sequence of the trees verify_proof is attacked on (SpecVerify)
MaxVerifyLeaves == 3
\* longest raw allocation list handed to clean_addresses (SpecWallets)
MaxEntries == 3
\* width of the amount type in the model; the source's u64 has 64 bits
WordBits == 3
\* most files handed to one write_blobs call (SpecStore)
MaxFiles == 3
\* longest leaf sequence of the first of two trees compared by root (SpecCommit)
MaxCommitLeaves == 3

(***************************************************************************)
(* Small helpers.                                                          *)
(***************************************************************************)
RECURSIVE Pow2(_)
Pow2(n) == IF n = 0 THEN 1 ELSE 2 * Pow2(n - 1)

SetMax(S) == CHOOSE m \in S : \A x \in S : x <= m

Range(s) == {s[i] : i \in 1..Len(s)}

(***************************************************************************)
(* Hash values.                                                            *)
(***************************************************************************)
Atom(v) == <<v>>

\* a hash no tree of the model contains (the tests' create_hash(b"invalid"))
Invalid == Atom(0)

\* the placeholder of a Hash field that holds no value
NoHash == <<>>

\* a hasher that is never fed the left operand
hash_pair_right_only(left, right) == <<right, right>>

\* a hasher that is never fed the right operand
hash_pair_left_only(left, right) == <<left, left>>

\* merkle.rs:82-87: Blake2b over left || right, order-sensitive
hash_pair(left, right) == <<left, right>>

(***************************************************************************)
(* MerkleTree::new, merkle.rs:16-43.                                       *)
(***************************************************************************)
\* the promote-the-odd-node scheme the builder does not use
next_layer_promote(current_layer) ==
    [j \in 1..((Len(current_layer) + 1) \div 2) |->
        IF 2 * j <= Len(current_layer)
        THEN hash_pair(current_layer[2 * j - 1], current_layer[2 * j])
        ELSE current_layer[2 * j - 1]]

\* merkle.rs:27-34: chunks(2), the last chunk of an odd layer has one element
next_layer(current_layer) ==
    [j \in 1..((Len(current_layer) + 1) \div 2) |->
        LET left  == current_layer[2 * j - 1]
            right == IF 2 * j <= Len(current_layer)
                     THEN current_layer[2 * j]
                     ELSE left
        IN  hash_pair(left, right)]

\* a loop that stops one level early
RECURSIVE build_levels_short(_, _)
build_levels_short(current_layer, levels) ==
    IF Len(current_layer) > 2
    THEN LET next == next_layer(current_layer)
         IN  build_levels_short(next, Append(levels, next))
    ELSE levels

\* merkle.rs:26-36: the while loop; returns the finished levels
RECURSIVE build_levels(_, _)
build_levels(current_layer, levels) ==
    IF Len(current_layer) > 1
    THEN LET next == next_layer(current_layer)
         IN  build_levels(next, Append(levels, next))
    ELSE levels

NoTree == [status |-> "None", root |-> NoHash, leaf_count |-> 0, levels |-> <<>>]

\* a builder that only refuses the empty input
MerkleTree_new_min1(ls) ==
    IF Len(ls) < 1
    THEN [status |-> "Err", root |-> NoHash, leaf_count |-> 0, levels |-> <<>>]
    ELSE LET levels == build_levels(ls, <<ls>>)
         IN  [status     |-> "Ok",
              root       |-> levels[Len(levels)][1],
              leaf_count |-> Len(ls),
              levels     |-> levels]

\* leaf_count is leaves.len() as u32 (merkle.rs:23); the model's sequences are
\* far shorter than 2^32, so the cast is the identity here
MerkleTree_new(ls) ==
    IF Len(ls) < 2
    THEN [status |-> "Err", root |-> NoHash, leaf_count |-> 0, levels |-> <<>>]
    ELSE LET levels == build_levels(ls, <<ls>>)
         IN  [status     |-> "Ok",
              root       |-> levels[Len(levels)][1],
              leaf_count |-> Len(ls),
              levels     |-> levels]

\* merkle.rs:45-47
get_root(t) == t.root

(***************************************************************************)
(* get_leaf_index, merkle.rs:73-79: position of the first equal hash in    *)
(* level 0, or None (modelled as -1).                                      *)
(***************************************************************************)
None == -1

\* a lookup that scans level 0 from the back (rposition)
get_leaf_index_last(t, leaf_hash) ==
    IF t.levels = <<>> THEN None
    ELSE LET level0 == t.levels[1]
             hits   == {i \in 1..Len(level0) : level0[i] = leaf_hash}
         IN  IF hits = {} THEN None
             ELSE (CHOOSE i \in hits : \A k \in hits : i >= k) - 1

get_leaf_index(t, leaf_hash) ==
    IF t.levels = <<>> THEN None
    ELSE LET level0 == t.levels[1]
             hits   == {i \in 1..Len(level0) : level0[i] = leaf_hash}
         IN  IF hits = {} THEN None
             ELSE (CHOOSE i \in hits : \A k \in hits : i <= k) - 1

(***************************************************************************)
(* get_proof, merkle.rs:49-66.                                             *)
(***************************************************************************)
\* a generator that forgets the odd-node rule and takes the left neighbour
sibling_of_no_dup(current_level, index) ==
    LET sibling_index == IF index % 2 = 0 THEN index + 1 ELSE index - 1
    IN  IF sibling_index < Len(current_level)
        THEN current_level[sibling_index + 1]
        ELSE current_level[index]

\* merkle.rs:55-60
sibling_of(current_level, index) ==
    LET sibling_index == IF index % 2 = 0 THEN index + 1 ELSE index - 1
    IN  IF sibling_index < Len(current_level)
        THEN current_level[sibling_index + 1]
        ELSE current_level[index + 1]

\* merkle.rs:54-63: the for loop over levels.iter().take(levels.len() - 1)
RECURSIVE get_proof_loop(_, _, _, _)
get_proof_loop(levels, k, index, proof) ==
    IF k > Len(levels) - 1 THEN proof
    ELSE get_proof_loop(levels, k + 1, index \div 2,
                        Append(proof, sibling_of(levels[k], index)))

NoProof == [status |-> "None", leaf |-> NoHash, leaf_index |-> None, proof |-> <<>>]

get_proof(t, leaf) ==
    LET leaf_index == get_leaf_index(t, leaf)
    IN  IF leaf_index = None
        THEN \* .expect("leaf not found") panics
             [status |-> "Panic", leaf |-> leaf, leaf_index |-> None, proof |-> <<>>]
        ELSE [status     |-> "Ok",
              leaf       |-> leaf,
              leaf_index |-> leaf_index,
              proof      |-> get_proof_loop(t.levels, 1, leaf_index, <<>>)]

(***************************************************************************)
(* verify_proof, merkle.rs:89-110 (the free function).                     *)
(***************************************************************************)
\* merkle.rs:96-102
verify_step(current_hash, sibling, current_idx) ==
    IF current_idx % 2 = 0
    THEN hash_pair(current_hash, sibling)
    ELSE hash_pair(sibling, current_hash)

\* merkle.rs:94-106: the for loop over the proof; returns the final hash
RECURSIVE verify_loop(_, _, _, _)
verify_loop(proof, k, current_hash, current_idx) ==
    IF k > Len(proof) THEN current_hash
    ELSE verify_loop(proof, k + 1,
                     verify_step(current_hash, proof[k], current_idx),
                     current_idx \div 2)

verify_proof(root, leaf, proof, leaf_idx) ==
    verify_loop(proof, 1, leaf, leaf_idx) = root

NoVerify ==
    [status |-> "None", via |-> "none", root |-> NoHash, leaf |-> NoHash,
     proof |-> <<>>, leaf_idx |-> None, result |-> FALSE]

\* merkle.rs:68-71: the method; panics when the leaf is not in level 0
MerkleTree_verify_proof(t, leaf, proof) ==
    LET leaf_idx == get_leaf_index(t, leaf)
    IN  IF leaf_idx = None
        THEN [status |-> "Panic", via |-> "method", root |-> t.root, leaf |-> leaf,
              proof |-> proof, leaf_idx |-> None, result |-> FALSE]
        ELSE [status |-> "Ok", via |-> "method", root |-> t.root, leaf |-> leaf,
              proof |-> proof, leaf_idx |-> leaf_idx,
              result |-> verify_proof(t.root, leaf, proof, leaf_idx)]

(***************************************************************************)
(* Serialization of a MerkleTree, merkle.rs:8-13 (derive Serialize,        *)
(* Deserialize) through bcs (main.rs:85, lib.rs:43).  The bytes are        *)
(* modelled as a sequence of fields: a Hash is written as its 32 bytes     *)
(* with no prefix, leaf_count as a u32, and a Vec as its length followed   *)
(* by its elements.  The struct is written field by field in declaration   *)
(* order: root, leaf_count, levels.                                        *)
(***************************************************************************)
HashBytes(h) == [kind |-> "hash", hash |-> h, n |-> 0]

U32Bytes(n) == [kind |-> "u32", hash |-> NoHash, n |-> n]

LenBytes(n) == [kind |-> "len", hash |-> NoHash, n |-> n]

ser_level(level) ==
    <<LenBytes(Len(level))>> \o [i \in 1..Len(level) |-> HashBytes(level[i])]

RECURSIVE ser_levels(_, _)
ser_levels(levels, k) ==
    IF k > Len(levels) THEN <<>>
    ELSE ser_level(levels[k]) \o ser_levels(levels, k + 1)

\* a writer that emits leaf_count before root
bcs_to_bytes_count_first(t) ==
    <<U32Bytes(t.leaf_count), HashBytes(t.root), LenBytes(Len(t.levels))>>
        \o ser_levels(t.levels, 1)

bcs_to_bytes(t) ==
    <<HashBytes(t.root), U32Bytes(t.leaf_count), LenBytes(Len(t.levels))>>
        \o ser_levels(t.levels, 1)

\* each reader returns whether it succeeded, the value and the next position
de_field(bytes, pos, kind) ==
    IF pos <= Len(bytes) /\ bytes[pos].kind = kind
    THEN [ok |-> TRUE, hash |-> bytes[pos].hash, n |-> bytes[pos].n, next |-> pos + 1]
    ELSE [ok |-> FALSE, hash |-> NoHash, n |-> 0, next |-> pos]

RECURSIVE de_hashes(_, _, _, _)
de_hashes(bytes, pos, m, acc) ==
    IF m = 0 THEN [ok |-> TRUE, value |-> acc, next |-> pos]
    ELSE LET h == de_field(bytes, pos, "hash") IN
         IF ~h.ok THEN [ok |-> FALSE, value |-> <<>>, next |-> pos]
         ELSE de_hashes(bytes, h.next, m - 1, Append(acc, h.hash))

de_level(bytes, pos) ==
    LET m == de_field(bytes, pos, "len") IN
    IF ~m.ok THEN [ok |-> FALSE, value |-> <<>>, next |-> pos]
    ELSE de_hashes(bytes, m.next, m.n, <<>>)

RECURSIVE de_levels(_, _, _, _)
de_levels(bytes, pos, n, acc) ==
    IF n = 0 THEN [ok |-> TRUE, value |-> acc, next |-> pos]
    ELSE LET l == de_level(bytes, pos) IN
         IF ~l.ok THEN [ok |-> FALSE, value |-> <<>>, next |-> pos]
         ELSE de_levels(bytes, l.next, n - 1, Append(acc, l.value))

\* bcs::from_bytes: an Err when a field is missing or input remains
bcs_from_bytes(bytes) ==
    LET root   == de_field(bytes, 1, "hash")
        count  == de_field(bytes, root.next, "u32")
        n      == de_field(bytes, count.next, "len")
        levels == de_levels(bytes, n.next, n.n, <<>>)
    IN  IF root.ok /\ count.ok /\ n.ok /\ levels.ok /\ levels.next = Len(bytes) + 1
        THEN [status |-> "Ok", root |-> root.hash, leaf_count |-> count.n,
              levels |-> levels.value]
        ELSE [status |-> "Err", root |-> NoHash, leaf_count |-> 0, levels |-> <<>>]

(***************************************************************************)
(* clean_addresses, wallets.rs:59-82.  An allocation is the pair           *)
(* <<address, amount>>; addresses are ordered as integers (Address derives *)
(* Ord over its bytes).  Amounts are WordBits wide.                        *)
(***************************************************************************)
U64Modulus == Pow2(WordBits)

RECURSIVE SeqSum(_)
SeqSum(s) == IF s = <<>> THEN 0 ELSE s[1] + SeqSum(Tail(s))

\* the mathematical sum of the amounts
AmountSum(as) == SeqSum([i \in 1..Len(as) |-> as[i][2]])

\* wallets.rs:79: slice::sort_by_key is a stable sort; insertion keeps equal
\* keys in input order
RECURSIVE insert_by_key(_, _)
insert_by_key(sorted, v) ==
    IF sorted = <<>> THEN <<v>>
    ELSE IF sorted[Len(sorted)][1] <= v[1] THEN Append(sorted, v)
    ELSE Append(insert_by_key(SubSeq(sorted, 1, Len(sorted) - 1), v),
                sorted[Len(sorted)])

RECURSIVE sort_loop(_, _)
sort_loop(rest, sorted) ==
    IF rest = <<>> THEN sorted
    ELSE sort_loop(Tail(rest), insert_by_key(sorted, rest[1]))

\* a normalizer that returns the table in input order
sort_by_key_missing(as) == as

sort_by_key(as) == sort_loop(as, <<>>)

NoClean == [status |-> "None", msg |-> "", total |-> 0, table |-> <<>>]

CleanErr(msg) == [status |-> "Err", msg |-> msg, total |-> 0, table |-> <<>>]

\* wallets.rs:70-75 without the zero-amount check
any_empty_unchecked(as) == FALSE

\* wallets.rs:71
any_empty(as) == \E i \in 1..Len(as) : as[i][2] = 0

\* wallets.rs:77: Iterator::sum over u64 is `+`; with overflow checks compiled in
\* (debug profile) an overflowing `+` panics, without them (release profile)
\* it wraps
clean_addresses(as, checks) ==
    LET addrs == {as[i][1] : i \in 1..Len(as)}
    IN  IF Cardinality(addrs) < Len(as) THEN CleanErr("duplicates")
        ELSE IF any_empty(as) THEN CleanErr("empty claim")
        ELSE IF AmountSum(as) >= U64Modulus /\ checks
             THEN [status |-> "Panic", msg |-> "attempt to add with overflow",
                   total |-> 0, table |-> <<>>]
        ELSE [status |-> "Ok", msg |-> "",
              total  |-> AmountSum(as) % U64Modulus,
              table  |-> sort_by_key(as)]

(***************************************************************************)
(* hash_allo, wallets.rs:84-89: the Blake2b digest of bcs(address)         *)
(* followed by bcs(allo).  Both encodings have a fixed width, so the       *)
(* preimage is the number address * 2^w + allo and the digest is the atom  *)
(* of that number.                                                         *)
(***************************************************************************)
hash_allo(address, allo) == Atom(address * U64Modulus + allo)

(***************************************************************************)
(* AllocationExt, lib.rs:76-89.                                            *)
(***************************************************************************)
\* a lookup that returns the first field of the entry found
get_allocation_address(table, w) ==
    LET hits == {i \in 1..Len(table) : table[i][1] = w} IN
    IF hits = {} THEN None
    ELSE table[CHOOSE i \in hits : \A j \in hits : i <= j][1]

\* self.iter().find(|(addr, _)| addr == wallet).map(|v| v.1)
get_allocation(table, w) ==
    LET hits == {i \in 1..Len(table) : table[i][1] = w} IN
    IF hits = {} THEN None
    ELSE table[CHOOSE i \in hits : \A j \in hits : i <= j][2]

\* None (modelled as NoHash) when get_allocation is None
get_leaf(table, w) ==
    LET allo == get_allocation(table, w) IN
    IF allo = None THEN NoHash ELSE hash_allo(w, allo)

(***************************************************************************)
(* The allocation blob, wallets.rs:9-57: one record of two text fields per *)
(* entry.  Field(n) is the text of n; parse_csv rejects a record that does *)
(* not have exactly two fields.                                            *)
(***************************************************************************)
Field(n) == [text |-> n]

write_wallets_to_bytes(data) ==
    [i \in 1..Len(data) |-> <<Field(data[i][1]), Field(data[i][2])>>]

parse_csv(records) ==
    IF \E i \in 1..Len(records) : Len(records[i]) # 2
    THEN [status |-> "Err", table |-> <<>>]
    ELSE [status |-> "Ok",
          table |-> [i \in 1..Len(records) |-> <<records[i][1].text, records[i][2].text>>]]

(***************************************************************************)
(* write_files and reorder_results, ffi.rs:97-145 and 210-216.  A          *)
(* BlobStoreResult is what the walrus tool prints for one file: the path   *)
(* it was given, the blob (named by its content) and the object created    *)
(* for it.  newly_created says whether the entry has the newlyCreated      *)
(* shape that the deserializer requires.                                   *)
(***************************************************************************)
\* paths.iter().position(|p| p == path), 0-based
position(paths, path) ==
    LET hits == {i \in 1..Len(paths) : paths[i] = path} IN
    IF hits = {} THEN None
    ELSE (CHOOSE i \in hits : \A j \in hits : i <= j) - 1

\* the stable sort of results.sort_by, by position of the path in paths
RECURSIVE insert_by_position(_, _, _)
insert_by_position(sorted, r, paths) ==
    IF sorted = <<>> THEN <<r>>
    ELSE IF position(paths, sorted[Len(sorted)].path) <= position(paths, r.path)
         THEN Append(sorted, r)
    ELSE Append(insert_by_position(SubSeq(sorted, 1, Len(sorted) - 1), r, paths),
                sorted[Len(sorted)])

RECURSIVE reorder_loop(_, _, _)
reorder_loop(rest, sorted, paths) ==
    IF rest = <<>> THEN sorted
    ELSE reorder_loop(Tail(rest), insert_by_position(sorted, rest[1], paths), paths)

\* results left in the order the tool printed them
reorder_results_unsorted(results, paths) == results

\* ffi.rs:210-216
reorder_results(results, paths) == reorder_loop(results, <<>>, paths)

\* ffi.rs:136-141
NewBlob(v) == [blob_id |-> v.blob_id, object_address |-> v.id]

NoStore == [status |-> "None", files |-> <<>>, values |-> <<>>, blobs |-> <<>>]

\* ffi.rs:97-145 after the tool has printed out: serde_json::from_str fails
\* on an entry that is not newlyCreated; the comparator of sort_by unwraps the
\* position of each path it is handed, which it is for two results or more
write_files(files, out) ==
    IF \E i \in 1..Len(out) : ~out[i].newly_created
    THEN [status |-> "Err", blobs |-> <<>>]
    ELSE IF Len(out) >= 2 /\ \E i \in 1..Len(out) : position(files, out[i].path) = None
    THEN [status |-> "Panic", blobs |-> <<>>]
    ELSE LET json == reorder_results(out, files) IN
         [status |-> "Ok", blobs |-> [i \in 1..Len(json) |-> NewBlob(json[i])]]

\* ffi.rs:147-174: values[k] is written to the temporary file paths[k]
write_blobs(values, paths, out) ==
    LET r == write_files(paths, out) IN
    [status |-> r.status, files |-> paths, values |-> values, blobs |-> r.blobs]

(***************************************************************************)
(* Values of the variables that hold no result yet.                        *)
(***************************************************************************)
NoAllocations == [status |-> "None", table |-> <<>>]

NoLookup == [status |-> "None", wallet |-> None, allocation |-> None, leaf |-> NoHash]

NoSecond == [status |-> "None", leaves |-> <<>>, root |-> NoHash]

NoTx ==
    [kind |-> "none", created |-> FALSE, signed |-> FALSE, submitted |-> FALSE,
     sender |-> None, amount |-> 0, leaf_index |-> None, proof |-> <<>>,
     root |-> NoHash, leaf_count |-> 0, blobs |-> <<>>]

(***************************************************************************)
(* Inputs.  hash_pair treats its operands as opaque values, so leaf        *)
(* sequences are enumerated up to renaming of the leaf values: the first   *)
(* leaf is Atom(1) and every later leaf is either an earlier value or the  *)
(* next unused one.  Sequences with repeated leaves are included.          *)
(***************************************************************************)
RECURSIVE CanonSeqs(_)
CanonSeqs(n) ==
    IF n = 0 THEN {<<>>}
    ELSE UNION {{Append(s, v) : v \in 1..(SetMax({0} \cup Range(s)) + 1)} :
                s \in CanonSeqs(n - 1)}

LeafSeqs(lo, hi) ==
    {[i \in 1..Len(s) |-> Atom(s[i])] : s \in UNION {CanonSeqs(n) : n \in lo..hi}}

LeafInputs == LeafSeqs(0, MaxLeaves)

VerifyLeafInputs == LeafSeqs(2, MaxVerifyLeaves)

\* the hashes a caller of get_proof / MerkleTree::verify_proof may hold
LeafPool == Range(leaves) \cup {Invalid}

\* every hash of the tree, and one hash outside it
HashPool(t) == {Invalid} \cup UNION {Range(t.levels[k]) : k \in 1..Len(t.levels)}

RECURSIVE SeqsUpTo(_, _)
SeqsUpTo(S, n) ==
    IF n = 0 THEN {<<>>}
    ELSE LET shorter == SeqsUpTo(S, n - 1)
         IN  shorter \cup {Append(q, h) : q \in {r \in shorter : Len(r) = n - 1}, h \in S}

\* sibling sequences up to one entry longer than the tree's own proofs
ProofInputs(t) == SeqsUpTo(HashPool(t), Len(t.levels))

\* leaf indices up to one bit above the tree's own proofs
IndexInputs(t) == 0..(Pow2(Len(t.levels)) - 1)

AmountValues == {0, 1, 2, Pow2(WordBits - 1), U64Modulus - 1}

AddressValues == 1..MaxEntries

AddressInputs == SeqsUpTo(AddressValues \X AmountValues, MaxEntries)

(***************************************************************************)
(* The state machine.                                                      *)
(***************************************************************************)
Init ==
    /\ leaves = <<>>
    /\ tree = NoTree
    /\ proofRes = NoProof
    /\ verifyRes = NoVerify
    /\ overflow_checks \in BOOLEAN
    /\ addresses = <<>>
    /\ cleanRes = NoClean
    /\ blob = <<>>
    /\ loaded = NoTree
    /\ allocations = NoAllocations
    /\ lookupRes = NoLookup
    /\ second = NoSecond
    /\ pc = "start"
    /\ wallet = None
    /\ stored = <<>>
    /\ tx = NoTx
    /\ reported = <<>>
    /\ storeRes = NoStore

\* One run of the program builds one tree, asks for one proof and verifies
\* once (main.rs:83, 157, 159); every operation is a pure function of its
\* arguments, so further calls in the same run would add no behaviour.

\* MerkleTree::new(&ls) for a leaf sequence of the set S
New(S) ==
    /\ tree.status = "None"
    /\ \E ls \in S :
          /\ leaves' = ls
          /\ tree' = MerkleTree_new(ls)
    /\ UNCHANGED <<proofRes, verifyRes, overflow_checks, addresses, cleanRes, ext>>

\* tree.get_proof(&leaf)
GetProof ==
    /\ tree.status = "Ok"
    /\ proofRes.status = "None"
    /\ \E leaf \in LeafPool : proofRes' = get_proof(tree, leaf)
    /\ UNCHANGED <<leaves, tree, verifyRes, overflow_checks, addresses, cleanRes, ext>>

\* tree.verify_proof(&leaf, &proof) with the proof get_proof returned (main.rs:157-159)
TreeVerifyProof ==
    /\ tree.status = "Ok"
    /\ proofRes.status = "Ok"
    /\ verifyRes.status = "None"
    /\ \E leaf \in LeafPool :
          verifyRes' = MerkleTree_verify_proof(tree, leaf, proofRes.proof)
    /\ UNCHANGED <<leaves, tree, proofRes, overflow_checks, addresses, cleanRes, ext>>

\* the free verify_proof(root, leaf, proof, leaf_idx)
VerifyCall(root, leaf, proof, leaf_idx) ==
    /\ verifyRes' = [status |-> "Ok", via |-> "free", root |-> root, leaf |-> leaf,
                     proof |-> proof, leaf_idx |-> leaf_idx,
                     result |-> verify_proof(root, leaf, proof, leaf_idx)]
    /\ UNCHANGED <<leaves, tree, proofRes, overflow_checks, addresses, cleanRes, ext>>

\* verify_proof on exactly what get_proof returned
VerifyProof ==
    /\ tree.status = "Ok"
    /\ proofRes.status = "Ok"
    /\ verifyRes.status = "None"
    /\ VerifyCall(get_root(tree), proofRes.leaf, proofRes.proof, proofRes.leaf_index)

\* verify_proof against the tree's root on any leaf, proof and index
VerifyAny ==
    /\ tree.status = "Ok"
    /\ verifyRes.status = "None"
    /\ \E leaf \in HashPool(tree), proof \in ProofInputs(tree),
          leaf_idx \in IndexInputs(tree) :
          VerifyCall(get_root(tree), leaf, proof, leaf_idx)

\* clean_addresses(as)
CleanAddresses ==
    /\ cleanRes.status = "None"
    /\ \E as \in AddressInputs :
          /\ addresses' = as
          /\ cleanRes' = clean_addresses(as, overflow_checks)
    /\ UNCHANGED <<leaves, tree, proofRes, verifyRes, overflow_checks, ext>>

Next ==
    \/ New(LeafInputs)
    \/ GetProof
    \/ TreeVerifyProof
    \/ VerifyProof

Spec == Init /\ [][Next]_vars

NextVerify ==
    \/ New(VerifyLeafInputs)
    \/ VerifyAny

SpecVerify == Init /\ [][NextVerify]_vars

NextWallets == CleanAddresses

SpecWallets == Init /\ [][NextWallets]_vars

\* bcs::to_bytes(&merk), main.rs:85
Serialize ==
    /\ tree.status = "Ok"
    /\ blob = <<>>
    /\ blob' = bcs_to_bytes(tree)
    /\ UNCHANGED <<leaves, tree, proofRes, verifyRes, overflow_checks, addresses, cleanRes>>
    /\ UNCHANGED <<loaded, allocations, lookupRes, second, pc, wallet, stored, tx, reported, storeRes>>

\* bcs::from_bytes(&bytes), lib.rs:43
Deserialize ==
    /\ blob # <<>>
    /\ loaded.status = "None"
    /\ loaded' = bcs_from_bytes(blob)
    /\ UNCHANGED <<leaves, tree, proofRes, verifyRes, overflow_checks, addresses, cleanRes>>
    /\ UNCHANGED <<blob, allocations, lookupRes, second, pc, wallet, stored, tx, reported, storeRes>>

NextRoundTrip ==
    \/ New(LeafInputs)
    \/ Serialize
    \/ Deserialize

SpecRoundTrip == Init /\ [][NextRoundTrip]_vars

(***************************************************************************)
(* Vocabulary of the claims.                                               *)
(***************************************************************************)
\* the leaf L is an element of level 0 of the tree
IsLeaf(t, L) == t.status = "Ok" /\ L \in Range(t.levels[1])

\* what get_proof returns for L
ProofOf(t, L) == get_proof(t, L).proof

IndexOf(t, L) == get_proof(t, L).leaf_index

\* P differs from Q in exactly one entry
SingleMutation(P, Q) ==
    /\ Len(P) = Len(Q)
    /\ Cardinality({k \in 1..Len(Q) : P[k] # Q[k]}) = 1

PairwiseDistinct(s) == Cardinality(Range(s)) = Len(s)

\* a free verify_proof call against the tree's root has been made
Verified == tree.status = "Ok" /\ verifyRes.status = "Ok"

Occurrences(s, e) == Cardinality({i \in 1..Len(s) : s[i] = e})

IsPermutationOf(s, t) ==
    /\ Len(s) = Len(t)
    /\ \A e \in Range(s) \cup Range(t) : Occurrences(s, e) = Occurrences(t, e)

StrictlyAscending(table) ==
    \A i \in 1..(Len(table) - 1) : table[i][1] < table[i + 1][1]

HasDuplicate(as) == \E i, j \in 1..Len(as) : i < j /\ as[i][1] = as[j][1]

HasZero(as) == \E i \in 1..Len(as) : as[i][2] = 0

\* the sum of the amounts is representable in the amount type
SumFits(as) == AmountSum(as) < U64Modulus

ValidInput(as) == ~HasDuplicate(as) /\ ~HasZero(as) /\ SumFits(as)

Cleaned == cleanRes.status # "None"

Reorderings(as) ==
    {[i \in 1..Len(as) |-> as[p[i]]] : p \in Permutations(1..Len(as))}

(***************************************************************************)
(* Claims about the tree and its proofs.                                   *)
(***************************************************************************)

\* C1 (completeness): whenever verify_proof, called directly or through the
\* method, is given a leaf of the tree together with the index and the proof
\* that get_proof returned for that leaf, it returns true.
C1_Completeness ==
    (/\ Verified
     /\ proofRes.status = "Ok"
     /\ verifyRes.leaf = proofRes.leaf
     /\ verifyRes.proof = proofRes.proof
     /\ verifyRes.leaf_idx = proofRes.leaf_index)
    => verifyRes.result = TRUE

\* the last leaf of a five-leaf tree, its own sibling at level 0, verified by
\* the free function
C1_Witness ==
    /\ Verified
    /\ verifyRes.via = "free"
    /\ Len(leaves) = 5
    /\ proofRes.leaf_index = 4
    /\ proofRes.proof[1] = proofRes.leaf
    /\ verifyRes.result = TRUE

\* C2 (soundness under single-hash mutation): verify_proof against the tree's
\* root returns false for a leaf of the tree, its own index, and a proof that
\* differs from the one get_proof returns in exactly one entry.
C2_SingleMutationRejected ==
    (/\ Verified
     /\ IsLeaf(tree, verifyRes.leaf)
     /\ verifyRes.leaf_idx = IndexOf(tree, verifyRes.leaf)
     /\ SingleMutation(verifyRes.proof, ProofOf(tree, verifyRes.leaf)))
    => verifyRes.result = FALSE

\* the second sibling of a three-leaf proof replaced by a hash of the tree
C2_Witness ==
    /\ Verified
    /\ Len(leaves) = 3
    /\ IsLeaf(tree, verifyRes.leaf)
    /\ verifyRes.leaf_idx = IndexOf(tree, verifyRes.leaf)
    /\ SingleMutation(verifyRes.proof, ProofOf(tree, verifyRes.leaf))
    /\ verifyRes.proof[2] # ProofOf(tree, verifyRes.leaf)[2]
    /\ verifyRes.proof[2] \in Range(tree.levels[2])
    /\ verifyRes.result = FALSE

\* C3 (index binding): for pairwise-distinct leaves, a leaf at position i and
\* its correct proof, verify_proof returns false for every index other than i.
C3_IndexBinding ==
    (/\ Verified
     /\ PairwiseDistinct(leaves)
     /\ IsLeaf(tree, verifyRes.leaf)
     /\ verifyRes.proof = ProofOf(tree, verifyRes.leaf)
     /\ verifyRes.leaf_idx # IndexOf(tree, verifyRes.leaf))
    => verifyRes.result = FALSE

\* C4 (non-membership): verify_proof against the tree's root returns false
\* for every hash that is not an element of level 0, whatever the index and
\* the sibling sequence.
C4_NonMembership ==
    (Verified /\ ~IsLeaf(tree, verifyRes.leaf)) => verifyRes.result = FALSE

\* C5 (wrong-length proofs): verify_proof against the root of a tree with k
\* levels returns false for every sibling sequence whose length is not k - 1.
C5_WrongLengthRejected ==
    (Verified /\ Len(verifyRes.proof) # Len(tree.levels) - 1)
    => verifyRes.result = FALSE

\* C6 (odd-node self-pairing): in a built tree the parent of the last node of
\* an odd-length level is H(last || last), never the node itself; for three
\* leaves [a, b, c] the root is H(H(a, b), H(c, c)).
C6_OddSelfPairing ==
    tree.status = "Ok" =>
        /\ \A k \in 1..(Len(tree.levels) - 1) :
              LET level == tree.levels[k]
                  last  == level[Len(level)]
                  above == tree.levels[k + 1]
              IN  Len(level) % 2 = 1 =>
                      /\ above[Len(above)] = hash_pair(last, last)
                      /\ above[Len(above)] # last
        /\ Len(leaves) = 3 =>
              tree.root = hash_pair(hash_pair(leaves[1], leaves[2]),
                                    hash_pair(leaves[3], leaves[3]))

\* a five-leaf tree: levels 0 and 1 both have odd length
C6_Witness ==
    /\ tree.status = "Ok"
    /\ Len(tree.levels[1]) = 5
    /\ Len(tree.levels[2]) = 3
    /\ tree.levels[3][2] = hash_pair(tree.levels[2][3], tree.levels[2][3])

\* C7 (tree shape): level 0 is the input in input order, level i+1 has
\* ceil(len(level i) / 2) entries with entry j the hash of entries 2j and 2j+1
\* of level i (entry 2j twice when 2j+1 is out of range), the last level has
\* exactly one entry, and root is that entry.
C7_TreeShape ==
    tree.status = "Ok" =>
        /\ tree.levels[1] = leaves
        /\ \A k \in 1..(Len(tree.levels) - 1) :
              LET level == tree.levels[k]
                  above == tree.levels[k + 1]
              IN  /\ Len(above) = (Len(level) + 1) \div 2
                  /\ \A j \in 0..(Len(above) - 1) :
                        above[j + 1] =
                            hash_pair(level[2 * j + 1],
                                      IF 2 * j + 1 < Len(level)
                                      THEN level[2 * j + 2]
                                      ELSE level[2 * j + 1])
        /\ Len(tree.levels[Len(tree.levels)]) = 1
        /\ tree.root = tree.levels[Len(tree.levels)][1]

\* a four-level tree built from five leaves
C7_Witness ==
    /\ tree.status = "Ok"
    /\ Len(leaves) = 5
    /\ Len(tree.levels) = 4
    /\ tree.root = tree.levels[4][1]

(***************************************************************************)
(* Claims about the normalizer.                                            *)
(***************************************************************************)

\* C8 (normalizer validation): clean_addresses returns an error, and no
\* (total, table), when an address occurs more than once ("duplicates") and
\* when an amount is zero ("empty claim" when no address is repeated); it
\* succeeds when the addresses are pairwise distinct, no amount is zero and
\* the sum fits the amount type.
C8_Validation ==
    Cleaned =>
        /\ HasDuplicate(addresses) =>
              cleanRes.status = "Err" /\ cleanRes.msg = "duplicates"
        /\ HasZero(addresses) => cleanRes.status = "Err"
        /\ (HasZero(addresses) /\ ~HasDuplicate(addresses)) =>
              cleanRes.msg = "empty claim"
        /\ ValidInput(addresses) => cleanRes.status = "Ok"

\* a list of distinct addresses, one of them with amount zero, is refused
C8_Witness ==
    /\ Cleaned
    /\ Len(addresses) >= 2
    /\ ~HasDuplicate(addresses)
    /\ HasZero(addresses)
    /\ cleanRes.status = "Err"
    /\ cleanRes.msg = "empty claim"

\* C9 (normalizer output): on valid input the table is a permutation of the
\* input, strictly ascending by address, the total is the sum of the
\* amounts, and every reordering of the input gives the same (total, table).
C9_Output ==
    (Cleaned /\ ValidInput(addresses)) =>
        /\ cleanRes.status = "Ok"
        /\ IsPermutationOf(cleanRes.table, addresses)
        /\ StrictlyAscending(cleanRes.table)
        /\ cleanRes.total = AmountSum(addresses)
        /\ \A other \in Reorderings(addresses) :
              clean_addresses(other, overflow_checks) = cleanRes

\* three entries given in descending address order come back ascending
C9_Witness ==
    /\ Cleaned
    /\ ValidInput(addresses)
    /\ Len(addresses) = 3
    /\ addresses[1][1] > addresses[2][1]
    /\ addresses[2][1] > addresses[3][1]
    /\ cleanRes.status = "Ok"
    /\ cleanRes.table # addresses
    /\ cleanRes.total = AmountSum(addresses)

\* C10 (total overflow): when the sum of the amounts exceeds the range of the
\* amount type, clean_addresses fails; it never returns a total.
C10_OverflowRejected ==
    (/\ Cleaned
     /\ ~HasDuplicate(addresses)
     /\ ~HasZero(addresses)
     /\ ~SumFits(addresses))
    => cleanRes.status # "Ok"

(***************************************************************************)
(* Claims about the outcomes of the tree operations.                       *)
(***************************************************************************)

\* C11 (minimum size): MerkleTree::new returns the error, and no tree, for
\* an input of 0 or 1 leaf hashes, and a tree for every longer input.
C11_MinimumSize ==
    tree.status # "None" =>
        /\ Len(leaves) < 2 =>
              /\ tree.status = "Err"
              /\ tree.levels = <<>>
              /\ tree.root = NoHash
        /\ Len(leaves) >= 2 =>
              /\ tree.status = "Ok"
              /\ tree.levels # <<>>
              /\ tree.leaf_count = Len(leaves)

\* a single leaf is refused
C11_Witness ==
    /\ Len(leaves) = 1
    /\ tree.status = "Err"

\* C12 (absent leaf): get_proof called with a hash that is not in level 0
\* returns a LeafNotFound error to its caller, and no index or proof.
C12_AbsentLeafIsError ==
    (proofRes.status # "None" /\ ~IsLeaf(tree, proofRes.leaf))
    => /\ proofRes.status = "Err"
       /\ proofRes.leaf_index = None
       /\ proofRes.proof = <<>>

\* C13 (verification is a boolean): every verify_proof call, through the free
\* function or the method, on a leaf in or outside the tree, returns true or
\* false and never aborts.
C13_VerifyNeverAborts ==
    verifyRes.status # "None" =>
        /\ verifyRes.status = "Ok"
        /\ verifyRes.result \in BOOLEAN

\* the proof position of index i at level k (0-based): i div 2^k
PositionAt(i, k) == i \div Pow2(k)

\* p XOR 1
Xor1(p) == IF p % 2 = 0 THEN p + 1 ELSE p - 1

\* the first position of L in level 0 (0-based)
FirstOccurrence(ls, L) ==
    CHOOSE i \in 0..(Len(ls) - 1) :
        ls[i + 1] = L /\ \A j \in 0..(i - 1) : ls[j + 1] # L

\* C14 (proof shape): for a leaf first found at position i, get_proof returns
\* index i and one entry per level below the root, the k-th being
\* levels[k][(i div 2^k) XOR 1] when that position exists and
\* levels[k][i div 2^k] otherwise; for two leaves [x, y] the proof of leaf 0
\* is [y].
C14_ProofShape ==
    (proofRes.status # "None" /\ IsLeaf(tree, proofRes.leaf)) =>
        LET i == FirstOccurrence(leaves, proofRes.leaf)
        IN  /\ proofRes.status = "Ok"
            /\ proofRes.leaf_index = i
            /\ Len(proofRes.proof) = Len(tree.levels) - 1
            /\ \A k \in 0..(Len(tree.levels) - 2) :
                  LET level == tree.levels[k + 1]
                      pos   == PositionAt(i, k)
                  IN  proofRes.proof[k + 1] =
                          IF Xor1(pos) < Len(level)
                          THEN level[Xor1(pos) + 1]
                          ELSE level[pos + 1]
            /\ (Len(leaves) = 2 /\ i = 0) => proofRes.proof = <<leaves[2]>>

\* the proof of the last of five leaves: itself, then its own parent, then
\* the root of the left four
C14_Witness ==
    /\ proofRes.status = "Ok"
    /\ Len(leaves) = 5
    /\ proofRes.leaf_index = 4
    /\ proofRes.proof = <<tree.levels[1][5], tree.levels[2][3], tree.levels[3][1]>>

(***************************************************************************)
(* The commands of main, main.rs:59-173.  pc names the step the command    *)
(* takes next; "aborted" is a return with an error, "panicked" an abort,   *)
(* "done" the normal return.  A call that leaves the program (the sui and  *)
(* walrus CLIs, the GraphQL client, the prompt) either returns or fails.   *)
(***************************************************************************)
ExternalSteps ==
    {"start", "cl_wallet", "fetch_drop", "create_claim_tx", "sign", "submit",
     "read_wallets", "prompt", "write_blobs", "cd_wallet", "create_drop_tx",
     "find_obj"}

\* `?` on a call that leaves the program
Fail ==
    /\ pc \in ExternalSteps
    /\ pc' = "aborted"
    /\ UNCHANGED <<leaves, tree, proofRes, verifyRes, overflow_checks, addresses, cleanRes>>
    /\ UNCHANGED <<blob, loaded, allocations, lookupRes, second, wallet, stored, tx, reported, storeRes>>

\* ffi::sign_tx
SignTx ==
    /\ pc = "sign"
    /\ tx' = [tx EXCEPT !.signed = TRUE]
    /\ pc' = "submit"
    /\ UNCHANGED <<leaves, tree, proofRes, verifyRes, overflow_checks, addresses, cleanRes>>
    /\ UNCHANGED <<blob, loaded, allocations, lookupRes, second, wallet, stored, reported, storeRes>>

\* client.execute_tx
SubmitTx ==
    /\ pc = "submit"
    /\ tx' = [tx EXCEPT !.submitted = TRUE]
    /\ pc' = IF tx.kind = "create_drop" THEN "find_obj" ELSE "done"
    /\ UNCHANGED <<leaves, tree, proofRes, verifyRes, overflow_checks, addresses, cleanRes>>
    /\ UNCHANGED <<blob, loaded, allocations, lookupRes, second, wallet, stored, reported, storeRes>>

\* the leaves CreateDrop builds the tree from, main.rs:79-82
roots(table) == [i \in 1..Len(table) |-> hash_allo(table[i][1], table[i][2])]

(***************************************************************************)
(* Commands::Claim, main.rs:127-173.  The two blobs come from storage and  *)
(* are whatever was stored there: the tree of some normalized table, such  *)
(* a tree with another root, or bytes that do not decode; the records of   *)
(* some normalized table, or a record that does not parse.  The tree and   *)
(* the table need not belong together.                                     *)
(***************************************************************************)
ClaimAmounts == {1, 2}

ClaimTables ==
    {t \in SeqsUpTo(AddressValues \X ClaimAmounts, MaxEntries) : StrictlyAscending(t)}

PublishedTrees == {MerkleTree_new(roots(t)) : t \in {u \in ClaimTables : Len(u) >= 2}}

TreeBlobs ==
    {bcs_to_bytes(t) : t \in PublishedTrees}
        \cup {bcs_to_bytes([t EXCEPT !.root = Invalid]) : t \in PublishedTrees}
        \cup {<<>>}

TableBlobs ==
    {write_wallets_to_bytes(t) : t \in ClaimTables} \cup {<< <<Field(1)>> >>}

\* ffi::sui_check, main.rs:128
CL_SuiCheck ==
    /\ pc = "start"
    /\ pc' = "cl_wallet"
    /\ UNCHANGED <<leaves, tree, proofRes, verifyRes, overflow_checks, addresses, cleanRes>>
    /\ UNCHANGED <<blob, loaded, allocations, lookupRes, second, wallet, stored, tx, reported, storeRes>>

\* wallet_task.await, main.rs:130
CL_Wallet ==
    /\ pc = "cl_wallet"
    /\ \E w \in AddressValues : wallet' = w
    /\ pc' = "fetch_drop"
    /\ UNCHANGED <<leaves, tree, proofRes, verifyRes, overflow_checks, addresses, cleanRes>>
    /\ UNCHANGED <<blob, loaded, allocations, lookupRes, second, stored, tx, reported, storeRes>>

\* the drop object, its type parameter and its decoding, main.rs:133-140
CL_FetchDrop ==
    /\ pc = "fetch_drop"
    /\ pc' = "fetch_blobs"
    /\ UNCHANGED <<leaves, tree, proofRes, verifyRes, overflow_checks, addresses, cleanRes>>
    /\ UNCHANGED <<blob, loaded, allocations, lookupRes, second, wallet, stored, tx, reported, storeRes>>

\* try_join(fetch_merkle_tree, fetch_allocations)?, main.rs:144-148
CL_FetchBlobs ==
    /\ pc = "fetch_blobs"
    /\ \E tb \in TreeBlobs, ab \in TableBlobs :
          /\ loaded' = bcs_from_bytes(tb)
          /\ allocations' = parse_csv(ab)
    /\ pc' = IF loaded'.status = "Ok" /\ allocations'.status = "Ok"
             THEN "lookup" ELSE "aborted"
    /\ UNCHANGED <<leaves, tree, proofRes, verifyRes, overflow_checks, addresses, cleanRes>>
    /\ UNCHANGED <<blob, lookupRes, second, wallet, stored, tx, reported, storeRes>>

\* get_allocation(&wallet).ok_or("no allocation found")?, main.rs:152-154;
\* the record also keeps what get_leaf returns for the same arguments
CL_Lookup ==
    /\ pc = "lookup"
    /\ lookupRes' = [status     |-> "Ok",
                     wallet     |-> wallet,
                     allocation |-> get_allocation(allocations.table, wallet),
                     leaf       |-> get_leaf(allocations.table, wallet)]
    /\ pc' = IF lookupRes'.allocation = None THEN "aborted" ELSE "get_proof"
    /\ UNCHANGED <<leaves, tree, proofRes, verifyRes, overflow_checks, addresses, cleanRes>>
    /\ UNCHANGED <<blob, loaded, allocations, second, wallet, stored, tx, reported, storeRes>>

\* hash_allo(&wallet, allo) and merkle_tree.get_proof(&leaf), main.rs:155-157
CL_GetProof ==
    /\ pc = "get_proof"
    /\ proofRes' = get_proof(loaded, hash_allo(wallet, lookupRes.allocation))
    /\ pc' = IF proofRes'.status = "Panic" THEN "panicked" ELSE "verify"
    /\ UNCHANGED <<leaves, tree, verifyRes, overflow_checks, addresses, cleanRes>>
    /\ UNCHANGED <<blob, loaded, allocations, lookupRes, second, wallet, stored, tx, reported, storeRes>>

\* a check that lets a false verification through
after_verify_unchecked(res) ==
    IF res.status = "Panic" THEN "panicked" ELSE "create_claim_tx"

\* assert!(..., "Invalid proof"), main.rs:159
after_verify(res) ==
    IF res.status = "Ok" /\ res.result THEN "create_claim_tx" ELSE "panicked"

\* merkle_tree.verify_proof(&leaf, &proof), main.rs:159
CL_Verify ==
    /\ pc = "verify"
    /\ verifyRes' = MerkleTree_verify_proof(loaded, proofRes.leaf, proofRes.proof)
    /\ pc' = after_verify(verifyRes')
    /\ UNCHANGED <<leaves, tree, proofRes, overflow_checks, addresses, cleanRes>>
    /\ UNCHANGED <<blob, loaded, allocations, lookupRes, second, wallet, stored, tx, reported, storeRes>>

\* txns::create_claim_tx(.., &wallet, &proof, leaf_index, .., allo), main.rs:161-163
CL_CreateTx ==
    /\ pc = "create_claim_tx"
    /\ tx' = [NoTx EXCEPT !.kind = "claim", !.created = TRUE, !.sender = wallet,
                          !.amount = lookupRes.allocation,
                          !.leaf_index = proofRes.leaf_index,
                          !.proof = proofRes.proof]
    /\ pc' = "sign"
    /\ UNCHANGED <<leaves, tree, proofRes, verifyRes, overflow_checks, addresses, cleanRes>>
    /\ UNCHANGED <<blob, loaded, allocations, lookupRes, second, wallet, stored, reported, storeRes>>

NextClaim ==
    \/ CL_SuiCheck
    \/ CL_Wallet
    \/ CL_FetchDrop
    \/ CL_FetchBlobs
    \/ CL_Lookup
    \/ CL_GetProof
    \/ CL_Verify
    \/ CL_CreateTx
    \/ SignTx
    \/ SubmitTx
    \/ Fail

SpecClaim == Init /\ [][NextClaim]_vars

(***************************************************************************)
(* ffi::write_blobs, ffi.rs:147-174, and the walrus tool behind it.  The   *)
(* temporary files have distinct paths in no particular order.  The tool   *)
(* prints one result per file in an order of its own; it may also print    *)
(* one result too few, an entry that is not newlyCreated, or a path that   *)
(* is not one it was given.                                                *)
(***************************************************************************)
PathValues == 1..MaxFiles

ForeignPath == MaxFiles + 1

TempPaths(n) == {s \in SeqsUpTo(PathValues, n) : Len(s) = n /\ PairwiseDistinct(s)}

BlobStoreResult(path, content) ==
    [path |-> path, blob_id |-> content, id |-> path, newly_created |-> TRUE]

ResultsFor(paths, values) ==
    [k \in 1..Len(paths) |-> BlobStoreResult(paths[k], values[k])]

ToolOutputs(paths, values) ==
    LET results == ResultsFor(paths, values) IN
    Reorderings(results)
        \cup (IF results = <<>> THEN {}
              ELSE {SubSeq(results, 1, Len(results) - 1),
                    [results EXCEPT ![1].newly_created = FALSE],
                    [results EXCEPT ![1].path = ForeignPath]})

ContentValues == {write_wallets_to_bytes(<<<<a, 1>>>>) : a \in 1..2}

StoreValues == SeqsUpTo(ContentValues, MaxFiles)

\* a caller whose only step is ffi::write_blobs(values, EPOCHS)
WriteBlobs ==
    /\ pc = "start"
    /\ \E values \in StoreValues :
          \E paths \in TempPaths(Len(values)) :
             \E out \in ToolOutputs(paths, values) :
                /\ reported' = out
                /\ storeRes' = write_blobs(values, paths, out)
    /\ pc' = "done"
    /\ UNCHANGED <<leaves, tree, proofRes, verifyRes, overflow_checks, addresses, cleanRes>>
    /\ UNCHANGED <<blob, loaded, allocations, lookupRes, second, wallet, stored, tx>>

(***************************************************************************)
(* Commands::CreateDrop, main.rs:67-121.                                   *)
(***************************************************************************)
DropAmounts == {0, 1, U64Modulus - 1}

DropInputs == SeqsUpTo(AddressValues \X DropAmounts, MaxEntries)

\* ffi::env_check, main.rs:68
CD_EnvCheck ==
    /\ pc = "start"
    /\ pc' = "read_wallets"
    /\ UNCHANGED <<leaves, tree, proofRes, verifyRes, overflow_checks, addresses, cleanRes>>
    /\ UNCHANGED <<blob, loaded, allocations, lookupRes, second, wallet, stored, tx, reported, storeRes>>

\* wallets::read_wallets_csv(&path), main.rs:70
CD_ReadWallets ==
    /\ pc = "read_wallets"
    /\ \E data \in DropInputs : addresses' = data
    /\ pc' = "prompt"
    /\ UNCHANGED <<leaves, tree, proofRes, verifyRes, overflow_checks, cleanRes>>
    /\ UNCHANGED <<blob, loaded, allocations, lookupRes, second, wallet, stored, tx, reported, storeRes>>

\* the coin type prompt and TypeTag::from_str, main.rs:71-72
CD_Prompt ==
    /\ pc = "prompt"
    /\ pc' = "clean"
    /\ UNCHANGED <<leaves, tree, proofRes, verifyRes, overflow_checks, addresses, cleanRes>>
    /\ UNCHANGED <<blob, loaded, allocations, lookupRes, second, wallet, stored, tx, reported, storeRes>>

\* `?` on clean_addresses, main.rs:74
after_clean(res) ==
    IF res.status = "Ok" THEN "build"
    ELSE IF res.status = "Panic" THEN "panicked" ELSE "aborted"

\* wallets::clean_addresses(data)?, main.rs:74
CD_Clean ==
    /\ pc = "clean"
    /\ cleanRes' = clean_addresses(addresses, overflow_checks)
    /\ pc' = after_clean(cleanRes')
    /\ UNCHANGED <<leaves, tree, proofRes, verifyRes, overflow_checks, addresses>>
    /\ UNCHANGED <<blob, loaded, allocations, lookupRes, second, wallet, stored, tx, reported, storeRes>>

\* a build step that goes on whatever MerkleTree::new returned
after_new_unchecked(t) == "serialize"

\* `?` on MerkleTree::new, main.rs:83
after_new(t) == IF t.status = "Ok" THEN "serialize" ELSE "aborted"

\* the leaves and MerkleTree::new(&roots)?, main.rs:78-84
CD_Build ==
    /\ pc = "build"
    /\ leaves' = roots(cleanRes.table)
    /\ tree' = MerkleTree_new(leaves')
    /\ pc' = after_new(tree')
    /\ UNCHANGED <<proofRes, verifyRes, overflow_checks, addresses, cleanRes>>
    /\ UNCHANGED <<blob, loaded, allocations, lookupRes, second, wallet, stored, tx, reported, storeRes>>

\* bcs::to_bytes(&merk)?, main.rs:85
CD_Serialize ==
    /\ pc = "serialize"
    /\ blob' = bcs_to_bytes(tree)
    /\ pc' = "write_blobs"
    /\ UNCHANGED <<leaves, tree, proofRes, verifyRes, overflow_checks, addresses, cleanRes>>
    /\ UNCHANGED <<loaded, allocations, lookupRes, second, wallet, stored, tx, reported, storeRes>>

\* `?` on write_blobs and the ok_or on blobs.first() and blobs.get(1),
\* main.rs:91-93
after_write(res) ==
    IF res.status = "Panic" THEN "panicked"
    ELSE IF res.status = "Ok" /\ Len(res.blobs) >= 2 THEN "cd_wallet"
    ELSE "aborted"

\* write_wallets_to_bytes and ffi::write_blobs(vec![&merkle_bts, &address_bts]),
\* main.rs:88-93
CD_WriteBlobs ==
    /\ pc = "write_blobs"
    /\ LET values == <<blob, write_wallets_to_bytes(cleanRes.table)>> IN
       \E paths \in TempPaths(Len(values)) :
          \E out \in ToolOutputs(paths, values) :
             /\ reported' = out
             /\ storeRes' = write_blobs(values, paths, out)
    /\ stored' = storeRes'.blobs
    /\ pc' = after_write(storeRes')
    /\ UNCHANGED <<leaves, tree, proofRes, verifyRes, overflow_checks, addresses, cleanRes>>
    /\ UNCHANGED <<blob, loaded, allocations, lookupRes, second, wallet, tx>>

\* wallet_task.await, main.rs:96
CD_Wallet ==
    /\ pc = "cd_wallet"
    /\ \E w \in AddressValues : wallet' = w
    /\ pc' = "create_drop_tx"
    /\ UNCHANGED <<leaves, tree, proofRes, verifyRes, overflow_checks, addresses, cleanRes>>
    /\ UNCHANGED <<blob, loaded, allocations, lookupRes, second, stored, tx, reported, storeRes>>

\* txns::create_drop_tx(.., total, merk.leaf_count, .., &top_root), main.rs:97-107
CD_CreateTx ==
    /\ pc = "create_drop_tx"
    /\ tx' = [NoTx EXCEPT !.kind = "create_drop", !.created = TRUE, !.sender = wallet,
                          !.amount = cleanRes.total,
                          !.leaf_count = tree.leaf_count,
                          !.root = get_root(tree),
                          !.blobs = <<storeRes.blobs[1].object_address,
                                      storeRes.blobs[2].object_address>>]
    /\ pc' = "sign"
    /\ UNCHANGED <<leaves, tree, proofRes, verifyRes, overflow_checks, addresses, cleanRes>>
    /\ UNCHANGED <<blob, loaded, allocations, lookupRes, second, wallet, stored, reported, storeRes>>

\* sui::find_created_shared_obj(&res)?, main.rs:119
CD_FindObj ==
    /\ pc = "find_obj"
    /\ pc' = "done"
    /\ UNCHANGED <<leaves, tree, proofRes, verifyRes, overflow_checks, addresses, cleanRes>>
    /\ UNCHANGED <<blob, loaded, allocations, lookupRes, second, wallet, stored, tx, reported, storeRes>>

NextCreateDrop ==
    \/ CD_EnvCheck
    \/ CD_ReadWallets
    \/ CD_Prompt
    \/ CD_Clean
    \/ CD_Build
    \/ CD_Serialize
    \/ CD_WriteBlobs
    \/ CD_Wallet
    \/ CD_CreateTx
    \/ SignTx
    \/ SubmitTx
    \/ CD_FindObj
    \/ Fail

SpecCreateDrop == Init /\ [][NextCreateDrop]_vars

\* write_blobs called on its own and from CreateDrop
NextStore ==
    \/ WriteBlobs
    \/ NextCreateDrop

SpecStore == Init /\ [][NextStore]_vars

(***************************************************************************)
(* Two calls of MerkleTree::new, merkle.rs:16-43, whose roots are          *)
(* compared.  The second sequence is drawn from the leaves of the first,   *)
(* one value that is not among them, and the inner levels of the first     *)
(* tree (a node is a Hash like any other); it may be one longer.           *)
(***************************************************************************)
CommitInputs == LeafSeqs(2, MaxCommitLeaves)

FreshLeaf == Atom(MaxCommitLeaves + 1)

SecondInputs(t) ==
    {s \in SeqsUpTo(Range(t.levels[1]) \cup {FreshLeaf}, MaxCommitLeaves + 1) : Len(s) >= 2}
        \cup {t.levels[k] : k \in {j \in 2..Len(t.levels) : Len(t.levels[j]) >= 2}}

NewSecond ==
    /\ tree.status = "Ok"
    /\ second.status = "None"
    /\ \E ls \in SecondInputs(tree) :
          LET t == MerkleTree_new(ls) IN
          second' = [status |-> t.status, leaves |-> ls, root |-> get_root(t)]
    /\ UNCHANGED <<leaves, tree, proofRes, verifyRes, overflow_checks, addresses, cleanRes>>
    /\ UNCHANGED <<blob, loaded, allocations, lookupRes, pc, wallet, stored, tx, reported, storeRes>>

NextCommit ==
    \/ New(CommitInputs)
    \/ NewSecond

SpecCommit == Init /\ [][NextCommit]_vars

(***************************************************************************)
(* Claims about serialization, lookup and the two commands.                *)
(***************************************************************************)

\* C16 (tree round-trip): deserializing the bytes that serializing a tree
\* built by MerkleTree::new produced succeeds and gives a tree with the same
\* root, the same leaf_count and the same levels, for every leaf count >= 2.
C16_RoundTrip ==
    loaded.status # "None" =>
        /\ loaded.status = "Ok"
        /\ loaded.root = tree.root
        /\ loaded.leaf_count = tree.leaf_count
        /\ loaded.levels = tree.levels

\* a five-leaf tree (four levels, an odd level among them) came back
C16_Witness ==
    /\ loaded.status = "Ok"
    /\ Len(leaves) = 5
    /\ Len(loaded.levels) = 4
    /\ Len(blob) = 3 + 4 + 5 + 3 + 2 + 1

\* the entries of a table whose address is w
EntriesOf(table, w) == {i \in 1..Len(table) : table[i][1] = w}

\* C17 (allocation lookup): on a normalized table get_allocation returns the
\* amount of the entry with the address when there is one and None, never
\* an error, when there is none; get_leaf returns hash_allo(address, amount)
\* exactly when get_allocation returns an amount, and None otherwise.
C17_Lookup ==
    (lookupRes.status # "None" /\ StrictlyAscending(allocations.table)) =>
        LET table == allocations.table
            w     == lookupRes.wallet
        IN  /\ lookupRes.status = "Ok"
            /\ \A i \in EntriesOf(table, w) :
                  /\ lookupRes.allocation = table[i][2]
                  /\ lookupRes.leaf = hash_allo(w, table[i][2])
            /\ EntriesOf(table, w) = {} =>
                  /\ lookupRes.allocation = None
                  /\ lookupRes.leaf = NoHash
            /\ (lookupRes.leaf # NoHash) <=> (lookupRes.allocation # None)

\* the last of three entries is found, with an amount that is not its address
C17_Witness ==
    /\ lookupRes.status = "Ok"
    /\ Len(allocations.table) = 3
    /\ lookupRes.wallet = allocations.table[3][1]
    /\ lookupRes.allocation = 2
    /\ lookupRes.leaf = hash_allo(lookupRes.wallet, 2)

\* C20 (claim flow ordering): a claim transaction exists (built, signed or
\* submitted) only when both blobs were fetched and decoded, the wallet has
\* an allocation in the fetched table, and the proof generated for
\* hash_allo(wallet, amount) verified true against the fetched tree's root;
\* the transaction carries exactly that amount, leaf index and proof.
C20_ClaimOrdering ==
    (tx.kind = "claim" /\ (tx.created \/ tx.signed \/ tx.submitted)) =>
        LET allo == get_allocation(allocations.table, wallet)
            leaf == hash_allo(wallet, allo)
        IN  /\ loaded.status = "Ok"
            /\ allocations.status = "Ok"
            /\ allo # None
            /\ proofRes = get_proof(loaded, leaf)
            /\ proofRes.status = "Ok"
            /\ verifyRes.status = "Ok"
            /\ verifyRes.root = loaded.root
            /\ verifyRes.leaf = leaf
            /\ verifyRes.proof = proofRes.proof
            /\ verifyRes.result
            /\ verify_proof(loaded.root, leaf, proofRes.proof, proofRes.leaf_index)
            /\ tx.created
            /\ tx.sender = wallet
            /\ tx.amount = allo
            /\ tx.leaf_index = proofRes.leaf_index
            /\ tx.proof = proofRes.proof
            /\ tx.signed => tx.created
            /\ tx.submitted => tx.signed

\* a claim for the third of three entries was submitted
C20_Witness ==
    /\ tx.kind = "claim"
    /\ tx.submitted
    /\ pc = "done"
    /\ Len(allocations.table) = 3
    /\ tx.leaf_index = 2
    /\ Len(tx.proof) = 2

\* something of the campaign has left the program
Published == stored # <<>> \/ tx.created \/ tx.signed \/ tx.submitted

\* C18 (campaign creation aborts with nothing published): in CreateDrop,
\* whenever clean_addresses or MerkleTree::new returned an error the command
\* has returned with no blob written and no transaction created, signed or
\* submitted; blobs and transactions exist only after both succeeded.
C18_AbortPublishesNothing ==
    /\ (cleanRes.status = "Err" \/ tree.status = "Err") =>
          /\ pc = "aborted"
          /\ stored = <<>>
          /\ tx = NoTx
    /\ Published => (cleanRes.status = "Ok" /\ tree.status = "Ok")

\* a table with a zero amount was rejected and the command returned
C18_Witness ==
    /\ cleanRes.status = "Err"
    /\ cleanRes.msg = "empty claim"
    /\ pc = "aborted"
    /\ ~Published

\* two trees have been built
BothBuilt == tree.status = "Ok" /\ second.status = "Ok"

\* a hash that is not the output of hash_pair
IsLeafHash(h) == Len(h) = 1

LeafHashesOnly(s) == \A i \in 1..Len(s) : IsLeafHash(s[i])

\* C19 as stated (the root commits to the leaf sequence): two different
\* leaf sequences accepted by MerkleTree::new never give the same root.
C19_RootCommits ==
    (BothBuilt /\ second.leaves # leaves) => second.root # tree.root

\* C19 as it holds (the root commits to a sequence of distinct leaf hashes):
\* two different sequences, each of pairwise distinct hashes none of which
\* is an output of hash_pair, never give the same root.
C19_RootCommitsDistinctLeaves ==
    (/\ BothBuilt
     /\ second.leaves # leaves
     /\ PairwiseDistinct(leaves) /\ PairwiseDistinct(second.leaves)
     /\ LeafHashesOnly(leaves) /\ LeafHashesOnly(second.leaves))
        => second.root # tree.root

\* three distinct leaves against the same three in another order
C19_Witness ==
    /\ BothBuilt
    /\ leaves = <<Atom(1), Atom(2), Atom(3)>>
    /\ second.leaves = <<Atom(1), Atom(3), Atom(2)>>
    /\ second.root # tree.root

\* the tool printed exactly one result per file of the call, in some order
OneResultPerFile ==
    IsPermutationOf(reported, ResultsFor(storeRes.files, storeRes.values))

\* C21 (stored-blob ordering): when the storage tool prints one result per
\* input file, in whatever order, write_files returns one blob per file and
\* the k-th is the blob stored for the k-th path; hence the first blob
\* CreateDrop gets back is the Merkle-tree blob and the second the
\* allocation-table blob, and the transaction names their objects in that
\* order.
C21_StoredBlobOrdering ==
    /\ (storeRes.status # "None" /\ OneResultPerFile) =>
          /\ storeRes.status = "Ok"
          /\ Len(storeRes.blobs) = Len(storeRes.files)
          /\ \A k \in 1..Len(storeRes.files) :
                /\ storeRes.blobs[k].blob_id = storeRes.values[k]
                /\ storeRes.blobs[k].object_address = storeRes.files[k]
    /\ Len(stored) = 2 =>
          /\ stored[1].blob_id = blob
          /\ stored[2].blob_id = write_wallets_to_bytes(cleanRes.table)
    /\ tx.kind = "create_drop" =>
          /\ Len(stored) = 2
          /\ tx.blobs = <<storeRes.files[1], storeRes.files[2]>>

\* three files whose paths are not in name order, reported last file first
C21_Witness ==
    /\ storeRes.status = "Ok"
    /\ storeRes.files = <<2, 3, 1>>
    /\ OneResultPerFile
    /\ reported[1].path = 1
    /\ reported[2].path = 3
    /\ reported[3].path = 2
    /\ storeRes.values[1] # storeRes.values[3]

====
